---- MODULE Spec2Model ----
(***************************************************************************)
(* A model of the scheduling / credit-assignment core of the progressive   *)
(* learning chess engine: the Difficulty Controller (curriculum), the      *)
(* Memory Scheduler (spaced repetition), the Associative Learner           *)
(* (Pavlovian) and the Training Orchestrator's epochs that drive them.     *)
(*                                                                         *)
(* Numbers.  The code works on C doubles.  A double is modelled in fixed   *)
(* point: accuracies and association strengths in thousandths, vector      *)
(* components and losses in hundredths, time in units of 36 seconds (one   *)
(* hundredth of an hour).  A double that may be NaN is a record            *)
(* [nan |-> BOOLEAN, v |-> Int]; every comparison with a NaN is FALSE, as  *)
(* in IEEE-754.                                                            *)
(*                                                                         *)
(* Specifications.  Spec is the Difficulty Controller with the             *)
(* orchestrator's curriculum epoch, SpecSR the Memory Scheduler under a    *)
(* non-decreasing clock, SpecPav the Associative Learner and SpecPavWide  *)
(* its updates under learning rates outside [0, 1].  Each leaves the other *)
(* components in their initial state.  SpecStore is the level stores under *)
(* examples that differ, SpecSRAny the scheduler under any capacity,       *)
(* SpecPunish a learner that is only punished, SpecEngine an engine with   *)
(* its epoch counter, spaced-repetition step and pavlovian step, and       *)
(* SpecUI the training loop as the view controller's threads run it.       *)
(***************************************************************************)
EXTENDS Integers, Sequences, FiniteSets, TLC

VARIABLES
    curriculum,   \* CurriculumImpl: num_levels, current_level, mastery_threshold, levels
    engine,       \* TrainingEngine: is_training, config, stats
    sr,           \* SpacedRepetitionImpl: examples, capacity, ltm_threshold, initial_interval
    learner,      \* PavlovianLearnerImpl: associations, capacity, learning_rate, decay_rate
    now,          \* the value time(nullptr) returns, in units of 36 s
    streak_run,   \* history: per scheduler entry, correct updates since add / last incorrect
    extinctions,  \* history: the number of extinction calls made on the learner
    ui,           \* TrainingViewController: isTraining, trainingEngine, buttons, blocks
    call          \* history: the last operation, its arguments, result and pre-state

vars == <<curriculum, engine, sr, learner, now, streak_run, extinctions, ui, call>>

----------------------------------------------------------------------------
(* Bounds of the model                                                     *)

MaxLevels == 3          \* curricula of 1 .. MaxLevels levels
MaxStored == 2          \* examples added to a curriculum, over all its levels
MaxSeen == 3            \* cap on stats.examples_seen

----------------------------------------------------------------------------
(* Doubles                                                                 *)

Dbl(x) == [nan |-> FALSE, v |-> x]

NaN == [nan |-> TRUE, v |-> 0]

\* a >= b on doubles
DGeq(a, b) == ~a.nan /\ ~b.nan /\ a.v >= b.v

Abs(x) == IF x < 0 THEN -x ELSE x

Max(a, b) == IF a >= b THEN a ELSE b

Min(a, b) == IF a <= b THEN a ELSE b

\* (double)num / den in thousandths; 0/0 is NaN
DDivK(num, den) == IF den = 0 THEN NaN ELSE Dbl((num * 1000) \div den)

\* total / den for a (possibly NaN) total in hundredths; x/0 with x = 0 is NaN
DDivLoss(total, den) ==
    IF total.nan \/ den = 0 THEN NaN ELSE Dbl(total.v \div den)

----------------------------------------------------------------------------
(* Difficulty Controller                                                   *)

MASTERY_DEFAULT == 850      \* 0.85
EXAMPLES_PER_LEVEL == 1     \* initial capacity of a level's store (1000 in the code)

\* the caller's examples: input, target, difficulty (hundredths)
Examples ==
    { [input |-> <<0>>, target |-> <<0, 0>>, difficulty |-> 30] }

curriculum_create(num_levels) ==
    [ num_levels |-> num_levels,
      current_level |-> 0,
      mastery_threshold |-> MASTERY_DEFAULT,
      examples_per_level |-> EXAMPLES_PER_LEVEL,
      levels |-> [ i \in 1..num_levels |->
                   [ level |-> i - 1,
                     examples |-> <<>>,
                     capacity |-> EXAMPLES_PER_LEVEL,
                     mastery_threshold |-> MASTERY_DEFAULT,
                     current_accuracy |-> Dbl(0),
                     examples_seen |-> 0 ] ] ]

\* the copy curriculum_add_example (and spaced_repetition_add_example) stores
StoredExample(example, last_reviewed, next_review) ==
    [ input |-> example.input,
      target |-> example.target,
      difficulty |-> example.difficulty,
      is_correct |-> FALSE,
      attempts |-> 0,
      correct_streak |-> 0,
      last_reviewed |-> last_reviewed,
      next_review |-> next_review ]

\* levels are 0-based in the code, levels[level + 1] here
\* mutant: the new example is put in front of the stored ones
curriculum_add_example_in_front(c, example, level, t) ==
    IF level >= c.num_levels THEN c
    ELSE LET dl == c.levels[level + 1]
             grown == IF Len(dl.examples) >= dl.capacity
                      THEN [dl EXCEPT !.capacity = dl.capacity * 2]
                      ELSE dl
             added == [grown EXCEPT !.examples =
                          <<StoredExample(example, t, t)>> \o grown.examples]
         IN [c EXCEPT !.levels[level + 1] = added]

\* mutant: a level past the last one is clamped to the last one
curriculum_add_example_clamped(c, example, level, t) ==
    LET lv == IF level >= c.num_levels THEN c.num_levels - 1 ELSE level
        dl == c.levels[lv + 1]
        grown == IF Len(dl.examples) >= dl.capacity
                 THEN [dl EXCEPT !.capacity = dl.capacity * 2]
                 ELSE dl
        added == [grown EXCEPT !.examples =
                     Append(grown.examples, StoredExample(example, t, t))]
    IN [c EXCEPT !.levels[lv + 1] = added]

curriculum_add_example(c, example, level, t) ==
    IF level >= c.num_levels THEN c
    ELSE LET dl == c.levels[level + 1]
             grown == IF Len(dl.examples) >= dl.capacity
                      THEN [dl EXCEPT !.capacity = dl.capacity * 2]
                      ELSE dl
             added == [grown EXCEPT !.examples =
                          Append(grown.examples, StoredExample(example, t, t))]
         IN [c EXCEPT !.levels[level + 1] = added]

\* mutant: an accuracy that is not a number passes the gate
curriculum_should_advance_nan_passes(c, accuracy) ==
    IF c.current_level >= c.num_levels - 1
    THEN [ret |-> FALSE, c |-> c]
    ELSE [ret |-> accuracy.nan \/ accuracy.v >= c.mastery_threshold,
          c |-> [c EXCEPT !.levels[c.current_level + 1].current_accuracy = accuracy]]

\* mutant: the mastery comparison is strict
curriculum_should_advance_strict(c, accuracy) ==
    IF c.current_level >= c.num_levels - 1
    THEN [ret |-> FALSE, c |-> c]
    ELSE [ret |-> ~accuracy.nan /\ accuracy.v > c.mastery_threshold,
          c |-> [c EXCEPT !.levels[c.current_level + 1].current_accuracy = accuracy]]

\* result and new state of curriculum_should_advance
curriculum_should_advance(c, accuracy) ==
    IF c.current_level >= c.num_levels - 1
    THEN [ret |-> FALSE, c |-> c]
    ELSE [ret |-> DGeq(accuracy, Dbl(c.mastery_threshold)),
          c |-> [c EXCEPT !.levels[c.current_level + 1].current_accuracy = accuracy]]

\* mutant: the last level wraps around to the first
curriculum_advance_level_wraps(c) ==
    IF c.current_level < c.num_levels - 1
    THEN [c EXCEPT !.current_level = c.current_level + 1]
    ELSE [c EXCEPT !.current_level = 0]

\* mutant: the terminal-level check is missing
curriculum_advance_level_unchecked(c) ==
    [c EXCEPT !.current_level = c.current_level + 1]

curriculum_advance_level(c) ==
    IF c.current_level < c.num_levels - 1
    THEN [c EXCEPT !.current_level = c.current_level + 1]
    ELSE c

curriculum_get_current_level(c) == c.levels[c.current_level + 1].level

----------------------------------------------------------------------------
(* Memory Scheduler (spaced repetition)                                    *)
(* Timestamps are in units of 36 s, intervals in thousandths of an hour,   *)
(* the streak multiplier in tenths.                                        *)

INITIAL_INTERVAL == 1000    \* sr->initial_interval = 1.0 hour
MIN_INTERVAL == 100         \* 0.1 hour
BASE_MULTIPLIER == 25       \* 2.5
STREAK_MULTIPLIER == 5      \* 0.5
EARLIEST_INIT == 277777778  \* earliest = 1e10 seconds, rounded up to a whole unit

\* hours * 3600.0 : an interval in hours as a span of time
HoursToTime(h) == h \div 10

\* span / 3600.0 : a span of time as hours
TimeToHours(span) == span * 10

spaced_repetition_create(capacity, ltm_threshold) ==
    [ examples |-> <<>>,
      capacity |-> capacity,
      ltm_threshold |-> ltm_threshold,
      initial_interval |-> INITIAL_INTERVAL ]

\* mutant: the new entry is due at once
spaced_repetition_add_example_due_now(s, example, t) ==
    LET grown == IF Len(s.examples) >= s.capacity
                 THEN [s EXCEPT !.capacity = s.capacity * 2]
                 ELSE s
    IN [grown EXCEPT !.examples =
           Append(grown.examples, StoredExample(example, t, t))]

spaced_repetition_add_example(s, example, t) ==
    LET grown == IF Len(s.examples) >= s.capacity
                 THEN [s EXCEPT !.capacity = s.capacity * 2]
                 ELSE s
    IN [grown EXCEPT !.examples =
           Append(grown.examples,
                  StoredExample(example, t, t + HoursToTime(s.initial_interval)))]

\* mutant: a later entry with an equal next_review replaces the one held
RECURSIVE NextReviewScan_last(_, _, _)
NextReviewScan_last(s, t, n) ==
    IF n = 0 THEN [next |-> 0, earliest |-> EARLIEST_INIT]
    ELSE LET prev == NextReviewScan_last(s, t, n - 1)
         IN IF s.examples[n].next_review <= t /\ s.examples[n].next_review <= prev.earliest
            THEN [next |-> n, earliest |-> s.examples[n].next_review]
            ELSE prev

\* the scan of spaced_repetition_get_next_review over entries 1..n: the index
\* (1-based, 0 for nullptr) and next_review of the entry held after n entries
RECURSIVE NextReviewScan(_, _, _)
NextReviewScan(s, t, n) ==
    IF n = 0 THEN [next |-> 0, earliest |-> EARLIEST_INIT]
    ELSE LET prev == NextReviewScan(s, t, n - 1)
         IN IF s.examples[n].next_review <= t /\ s.examples[n].next_review < prev.earliest
            THEN [next |-> n, earliest |-> s.examples[n].next_review]
            ELSE prev

\* the 0-based index of the entry returned, -1 for nullptr
spaced_repetition_get_next_review(s, t) ==
    NextReviewScan(s, t, Len(s.examples)).next - 1

\* mutant: an incorrect review leaves the streak as it was
spaced_repetition_update_example_keep_streak(s, index, is_correct, t) ==
    IF index >= Len(s.examples) THEN s
    ELSE LET ex1 == [s.examples[index + 1] EXCEPT
                        !.attempts = @ + 1, !.is_correct = is_correct, !.last_reviewed = t]
         IN IF is_correct
            THEN LET ex2 == [ex1 EXCEPT !.correct_streak = @ + 1]
                     m == IF ex2.correct_streak > 1
                          THEN BASE_MULTIPLIER + (ex2.correct_streak - 1) * STREAK_MULTIPLIER
                          ELSE BASE_MULTIPLIER
                 IN [s EXCEPT !.examples[index + 1] =
                        [ex2 EXCEPT !.next_review =
                            t + HoursToTime((s.initial_interval * m) \div 10)]]
            ELSE [s EXCEPT !.examples[index + 1] =
                    [ex1 EXCEPT !.next_review = t + HoursToTime(s.initial_interval)]]

\* mutant: an incorrect review does not reschedule the entry
spaced_repetition_update_example_no_reschedule(s, index, is_correct, t) ==
    IF index >= Len(s.examples) THEN s
    ELSE LET ex1 == [s.examples[index + 1] EXCEPT
                        !.attempts = @ + 1, !.is_correct = is_correct, !.last_reviewed = t]
         IN IF is_correct
            THEN LET ex2 == [ex1 EXCEPT !.correct_streak = @ + 1]
                     m == IF ex2.correct_streak > 1
                          THEN BASE_MULTIPLIER + (ex2.correct_streak - 1) * STREAK_MULTIPLIER
                          ELSE BASE_MULTIPLIER
                 IN [s EXCEPT !.examples[index + 1] =
                        [ex2 EXCEPT !.next_review =
                            t + HoursToTime((s.initial_interval * m) \div 10)]]
            ELSE [s EXCEPT !.examples[index + 1] = [ex1 EXCEPT !.correct_streak = 0]]

\* index is 0-based as in the code
spaced_repetition_update_example(s, index, is_correct, t) ==
    IF index >= Len(s.examples) THEN s
    ELSE LET ex1 == [s.examples[index + 1] EXCEPT
                        !.attempts = @ + 1,
                        !.is_correct = is_correct,
                        !.last_reviewed = t]
         IN IF is_correct
            THEN LET ex2 == [ex1 EXCEPT !.correct_streak = @ + 1]
                     interval_multiplier ==
                         IF ex2.correct_streak > 1
                         THEN BASE_MULTIPLIER + (ex2.correct_streak - 1) * STREAK_MULTIPLIER
                         ELSE BASE_MULTIPLIER
                     \* last_reviewed already holds t when the interval is measured
                     measured == TimeToHours(t - ex2.last_reviewed)
                     current_interval ==
                         IF measured < MIN_INTERVAL THEN s.initial_interval ELSE measured
                     next_interval == (current_interval * interval_multiplier) \div 10
                 IN [s EXCEPT !.examples[index + 1] =
                        [ex2 EXCEPT !.next_review = t + HoursToTime(next_interval)]]
            ELSE [s EXCEPT !.examples[index + 1] =
                    [ex1 EXCEPT !.correct_streak = 0,
                                !.next_review = t + HoursToTime(s.initial_interval)]]

\* mutant: promotion needs one review more than the threshold
spaced_repetition_is_in_ltm_strict(s, index) ==
    IF index >= Len(s.examples) THEN FALSE
    ELSE s.examples[index + 1].correct_streak > s.ltm_threshold

spaced_repetition_is_in_ltm(s, index) ==
    IF index >= Len(s.examples) THEN FALSE
    ELSE s.examples[index + 1].correct_streak >= s.ltm_threshold

----------------------------------------------------------------------------
(* Associative Learner (Pavlovian)                                         *)
(* Strengths, rewards, intensities and rates are in thousandths, stimulus  *)
(* vector components in hundredths.                                        *)

DECAY_RATE == 10            \* learner->decay_rate = 0.01
SIGNIFICANCE == 100         \* learner->threshold = 0.1
LEARNER_CAPACITY == 1       \* initial capacity of the table (1000 in the code)
MATCH_TOLERANCE == 1        \* 0.01 per component
PAVLOVIAN_HYBRID == 3       \* PavlovianType

\* a * b on doubles in thousandths, rounded to the nearest thousandth
FMul(a, b) ==
    LET p == a * b
    IN IF p >= 0 THEN (p + 500) \div 1000 ELSE -((-p + 500) \div 1000)

pavlovian_learner_create(type, learning_rate) ==
    [ type |-> type,
      learning_rate |-> learning_rate,
      decay_rate |-> DECAY_RATE,
      threshold |-> SIGNIFICANCE,
      capacity |-> LEARNER_CAPACITY,
      associations |-> <<>> ]

unconditioned_stimulus_create(vector, reward_value, intensity) ==
    [ stimulus_vector |-> vector, reward_value |-> reward_value, intensity |-> intensity ]

\* mutant: vectors match only when equal
VectorsMatch_exact(a, b) == a = b

\* the per-component comparison loop of the lookups, after the size check
VectorsMatch(a, b) ==
    /\ Len(a) = Len(b)
    /\ ~ \E j \in 1..Len(b) : Abs(a[j] - b[j]) > MATCH_TOLERANCE

AssociationMatches(assoc, cs, us) ==
    /\ VectorsMatch(assoc.cs.stimulus_vector, cs.stimulus_vector)
    /\ VectorsMatch(assoc.us.stimulus_vector, us.stimulus_vector)

\* mutant: the table is not searched
find_or_create_association_no_search(l, cs, us, t) ==
    LET grown == IF Len(l.associations) >= l.capacity
                 THEN [l EXCEPT !.capacity = l.capacity * 2]
                 ELSE l
        assoc == [ cs |-> [stimulus_vector |-> cs.stimulus_vector,
                           intensity |-> cs.intensity],
                   us |-> unconditioned_stimulus_create(
                              us.stimulus_vector, us.reward_value, us.intensity),
                   association_strength |-> 0,
                   learning_rate |-> l.learning_rate,
                   pairings |-> 0,
                   last_pairing_time |-> t ]
    IN [l |-> [grown EXCEPT !.associations = Append(grown.associations, assoc)],
        idx |-> Len(l.associations) + 1]

\* the learner after find_or_create_association and the (1-based) index returned
find_or_create_association(l, cs, us, t) ==
    LET found == { i \in 1..Len(l.associations) : AssociationMatches(l.associations[i], cs, us) }
    IN IF found # {}
       THEN [l |-> l, idx |-> CHOOSE i \in found : \A k \in found : i <= k]
       ELSE LET grown == IF Len(l.associations) >= l.capacity
                         THEN [l EXCEPT !.capacity = l.capacity * 2]
                         ELSE l
                assoc == [ cs |-> [stimulus_vector |-> cs.stimulus_vector,
                                   intensity |-> cs.intensity],
                           us |-> unconditioned_stimulus_create(
                                      us.stimulus_vector, us.reward_value, us.intensity),
                           association_strength |-> 0,
                           learning_rate |-> l.learning_rate,
                           pairings |-> 0,
                           last_pairing_time |-> t ]
            IN [l |-> [grown EXCEPT !.associations = Append(grown.associations, assoc)],
                idx |-> Len(l.associations) + 1]

\* mutant: the strength is not clamped
pavlovian_pair_stimuli_unclamped(l, cs, us, t) ==
    LET f == find_or_create_association(l, cs, us, t)
        assoc == f.l.associations[f.idx]
        lambda == IF us.reward_value > 0 THEN 1000
                  ELSE IF us.reward_value < 0 THEN -1000 ELSE 0
        delta == FMul(l.learning_rate, lambda - assoc.association_strength)
    IN [f.l EXCEPT !.associations[f.idx] =
           [assoc EXCEPT !.association_strength = assoc.association_strength + delta,
                         !.pairings = @ + 1,
                         !.last_pairing_time = t]]

\* mutant: the error term uses the reward itself
pavlovian_pair_stimuli_magnitude(l, cs, us, t) ==
    LET f == find_or_create_association(l, cs, us, t)
        assoc == f.l.associations[f.idx]
        delta == FMul(l.learning_rate, us.reward_value - assoc.association_strength)
        updated == assoc.association_strength + delta
        clamped == IF updated > 1000 THEN 1000
                   ELSE IF updated < -1000 THEN -1000 ELSE updated
    IN [f.l EXCEPT !.associations[f.idx] =
           [assoc EXCEPT !.association_strength = clamped,
                         !.pairings = @ + 1,
                         !.last_pairing_time = t]]

pavlovian_pair_stimuli(l, cs, us, t) ==
    LET f == find_or_create_association(l, cs, us, t)
        assoc == f.l.associations[f.idx]
        lambda == IF us.reward_value > 0 THEN 1000
                  ELSE IF us.reward_value < 0 THEN -1000 ELSE 0
        delta == FMul(l.learning_rate, lambda - assoc.association_strength)
        updated == assoc.association_strength + delta
        clamped == IF updated > 1000 THEN 1000
                   ELSE IF updated < -1000 THEN -1000 ELSE updated
    IN [f.l EXCEPT !.associations[f.idx] =
           [assoc EXCEPT !.association_strength = clamped,
                         !.pairings = @ + 1,
                         !.last_pairing_time = t]]

\* the strength returned and the learner after the (creating) lookup
pavlovian_get_association_strength(l, cs, us, t) ==
    LET f == find_or_create_association(l, cs, us, t)
    IN [ret |-> f.l.associations[f.idx].association_strength, l |-> f.l]

\* mutant: every association decays, matching or not
pavlovian_extinction_all(l, cs) ==
    [l EXCEPT !.associations =
        [ i \in 1..Len(l.associations) |->
            [l.associations[i] EXCEPT !.association_strength =
                FMul(@, 1000 - l.decay_rate)] ]]

pavlovian_extinction(l, cs) ==
    [l EXCEPT !.associations =
        [ i \in 1..Len(l.associations) |->
            IF VectorsMatch(l.associations[i].cs.stimulus_vector, cs.stimulus_vector)
            THEN [l.associations[i] EXCEPT !.association_strength =
                     FMul(@, 1000 - l.decay_rate)]
            ELSE l.associations[i] ]]

pavlovian_reward(l, cs, reward_value, t) ==
    pavlovian_pair_stimuli(l, cs,
        unconditioned_stimulus_create(cs.stimulus_vector, reward_value, 1000), t)

\* mutant: the punishment is passed on with its sign unchanged
pavlovian_punish_unsigned(l, cs, punishment_value, t) ==
    pavlovian_pair_stimuli(l, cs,
        unconditioned_stimulus_create(cs.stimulus_vector, punishment_value, 1000), t)

pavlovian_punish(l, cs, punishment_value, t) ==
    pavlovian_pair_stimuli(l, cs,
        unconditioned_stimulus_create(cs.stimulus_vector, -punishment_value, 1000), t)

\* the scan of pavlovian_get_expected_reward over associations 1..n
RECURSIVE ExpectedRewardScan(_, _, _)
ExpectedRewardScan(l, cs, n) ==
    IF n = 0 THEN [max_strength |-> 0, expected_reward |-> 0]
    ELSE LET prev == ExpectedRewardScan(l, cs, n - 1)
             assoc == l.associations[n]
         IN IF /\ VectorsMatch(assoc.cs.stimulus_vector, cs.stimulus_vector)
               /\ Abs(assoc.association_strength) > Abs(prev.max_strength)
            THEN [max_strength |-> assoc.association_strength,
                  expected_reward |-> assoc.us.reward_value]
            ELSE prev

\* mutant: the first association of the CS is used, whatever its strength
pavlovian_get_expected_reward_first(l, cs) ==
    LET matching == { i \in 1..Len(l.associations) :
                        VectorsMatch(l.associations[i].cs.stimulus_vector,
                                     cs.stimulus_vector) }
    IN IF matching = {} THEN 0
       ELSE LET i == CHOOSE i \in matching : \A j \in matching : i <= j
            IN FMul(l.associations[i].us.reward_value,
                    l.associations[i].association_strength)

pavlovian_get_expected_reward(l, cs) ==
    LET r == ExpectedRewardScan(l, cs, Len(l.associations))
    IN FMul(r.expected_reward, r.max_strength)

----------------------------------------------------------------------------
(* Predictor (external collaborator)                                       *)

\* what nn_forward may leave in the caller's output buffer (hundredths)
Outputs ==
    { <<Dbl(10), Dbl(0)>>, <<Dbl(0), Dbl(11)>>, <<NaN, Dbl(0)>> }

\* what nn_backward may report as the loss of one example (hundredths)
Losses == { Dbl(30) }

\* fabs(o - t) > thr on a double o and a finite t
FabsDiffGt(o, t, thr) == ~o.nan /\ Abs(o.v - t) > thr

CORRECT_TOLERANCE == 10     \* 0.1

\* the orchestrator's per-example correctness loop
OutputIsCorrect(output, target) ==
    ~ \E j \in 1..Len(target) : FabsDiffGt(output[j], target[j], CORRECT_TOLERANCE)

RECURSIVE SumLoss(_, _)
SumLoss(losses, n) ==
    IF n = 0 THEN Dbl(0)
    ELSE LET rest == SumLoss(losses, n - 1)
         IN IF rest.nan \/ losses[n].nan THEN NaN ELSE Dbl(rest.v + losses[n].v)

----------------------------------------------------------------------------
(* Training Orchestrator                                                   *)

ENGINE_NUM_LEVELS == 10     \* the level count training_engine_create passes

training_engine_create(config) ==
    [ config |-> config,
      is_training |-> FALSE,
      has_curriculum |-> config.use_curriculum,
      has_pavlovian |-> config.use_pavlovian,
      has_spaced_repetition |-> config.use_spaced_repetition,
      stats |-> [ current_loss |-> Dbl(0),
                  average_loss |-> Dbl(0),
                  accuracy |-> Dbl(0),
                  epoch |-> 0,
                  examples_seen |-> 0,
                  current_level |-> 0,
                  training_time |-> 0,
                  validation_accuracy |-> Dbl(0) ] ]

\* one curriculum epoch over the current level's store; outs[i] and losses[i]
\* are the predictor's output and loss for the i-th example
training_engine_train_with_curriculum(e, c, outs, losses) ==
    IF ~e.has_curriculum THEN [e |-> e, c |-> c]
    ELSE LET current_level == curriculum_get_current_level(c)
             level == c.levels[current_level + 1]
             n == Len(level.examples)
             total_loss == SumLoss(losses, n)
             correct == Cardinality({ i \in 1..n :
                            OutputIsCorrect(outs[i], level.examples[i].target) })
             stats1 == [e.stats EXCEPT
                          !.examples_seen = e.stats.examples_seen + n,
                          !.current_loss = DDivLoss(total_loss, n),
                          !.accuracy = DDivK(correct, n),
                          !.current_level = current_level]
             sa == curriculum_should_advance(c, stats1.accuracy)
             c2 == IF sa.ret THEN curriculum_advance_level(sa.c) ELSE sa.c
         IN [e |-> [e EXCEPT !.stats = stats1, !.is_training = FALSE], c |-> c2]

\* training_engine_train_epoch: the epoch counter is all it changes
\* mutant: an engine with a curriculum does not count the epoch
training_engine_train_epoch_plain_only(e) ==
    IF e.has_curriculum THEN [e EXCEPT !.is_training = FALSE]
    ELSE [e EXCEPT !.is_training = FALSE, !.stats.epoch = @ + 1]

training_engine_train_epoch(e) ==
    [e EXCEPT !.is_training = FALSE, !.stats.epoch = @ + 1]

\* the Predictor calls of one training cycle, in program order
TrainingCycle == <<"nn_forward", "nn_backward", "optimizer_update">>

\* one spaced-repetition step at time t; output is what nn_forward leaves in
\* the buffer; nn is the sequence of Predictor calls made
training_engine_train_with_spaced_repetition(e, s, output, t) ==
    IF ~e.has_spaced_repetition THEN [e |-> e, sr |-> s, nn |-> <<>>]
    ELSE LET ex == spaced_repetition_get_next_review(s, t)
         IN IF ex = -1 THEN [e |-> e, sr |-> s, nn |-> <<>>]
            ELSE LET is_correct == OutputIsCorrect(output, s.examples[ex + 1].target)
                 IN [e |-> e,
                     sr |-> spaced_repetition_update_example(s, ex, is_correct, t),
                     nn |-> TrainingCycle]

\* one pavlovian step at time t; target is what nn_backward is given
training_engine_train_with_pavlovian(e, l, cs, us, t) ==
    IF ~e.has_pavlovian THEN [e |-> e, l |-> l, target |-> <<>>, nn |-> <<>>]
    ELSE LET l2 == pavlovian_pair_stimuli(l, cs, us, t)
             expected_reward == pavlovian_get_expected_reward(l2, cs)
         IN [e |-> e, l |-> l2, target |-> <<expected_reward>>, nn |-> TrainingCycle]

----------------------------------------------------------------------------
(* TrainingViewController (the interactive driver of the training loop)    *)

\* the controller after viewDidLoad: no engine, the pause button disabled.
\* blocks are the bodies dispatched to the global queue by startTraining:,
\* main_queue the bodies they dispatch back to the main queue.
viewDidLoad ==
    [ isTraining |-> FALSE,
      trainingEngine |-> 0,
      updateTimer |-> FALSE,
      startEnabled |-> TRUE,
      pauseEnabled |-> FALSE,
      main_queue |-> <<>>,
      blocks |-> <<>> ]

----------------------------------------------------------------------------
(* Specification Spec: the Difficulty Controller and the curriculum epoch  *)

\* accuracies passed to should_advance directly (thousandths)
Accuracies == { Dbl(500), Dbl(850) }

ConfigThresholds == { 500 }

NoCall == [op |-> "none", arg |-> <<>>, ret |-> <<>>, pre |-> 0]

RECURSIVE SumLen(_, _)
SumLen(levels, n) ==
    IF n = 0 THEN 0 ELSE SumLen(levels, n - 1) + Len(levels[n].examples)

\* examples stored over all levels
NumStored(c) == SumLen(c.levels, c.num_levels)

IdleSR == spaced_repetition_create(1, 5)

IdleLearner == pavlovian_learner_create(PAVLOVIAN_HYBRID, 100)

IdleConfig ==
    [ learning_rate |-> 100,
      use_curriculum |-> FALSE,
      use_pavlovian |-> FALSE,
      use_spaced_repetition |-> FALSE,
      mastery_threshold |-> MASTERY_DEFAULT ]

Init ==
    /\ \E n \in 1..MaxLevels : curriculum = curriculum_create(n)
    /\ \E uc \in BOOLEAN, mt \in ConfigThresholds :
          engine = training_engine_create(
                       [IdleConfig EXCEPT !.use_curriculum = uc, !.mastery_threshold = mt])
    /\ sr = IdleSR
    /\ learner = IdleLearner
    /\ now = 0
    /\ streak_run = <<>>
    /\ extinctions = 0
    /\ ui = viewDidLoad
    /\ call = NoCall

AddExample ==
    \E example \in Examples, level \in 0..MaxLevels :
        /\ NumStored(curriculum) < MaxStored
        /\ curriculum' = curriculum_add_example(curriculum, example, level, now)
        /\ call' = [op |-> "add_example", arg |-> [example |-> example, level |-> level],
                    ret |-> <<>>, pre |-> curriculum.current_level]
        /\ UNCHANGED <<engine, sr, learner, now, streak_run, extinctions, ui>>

ShouldAdvance ==
    \E accuracy \in Accuracies :
        LET r == curriculum_should_advance(curriculum, accuracy)
        IN /\ curriculum' = r.c
           /\ call' = [op |-> "should_advance", arg |-> [accuracy |-> accuracy], ret |-> <<r.ret>>,
                       pre |-> curriculum.current_level]
           /\ UNCHANGED <<engine, sr, learner, now, streak_run, extinctions, ui>>

AdvanceLevel ==
    /\ curriculum' = curriculum_advance_level(curriculum)
    /\ call' = [op |-> "advance", arg |-> <<>>, ret |-> <<>>,
                pre |-> curriculum.current_level]
    /\ UNCHANGED <<engine, sr, learner, now, streak_run, extinctions, ui>>

TrainWithCurriculum ==
    LET n == Len(curriculum.levels[curriculum.current_level + 1].examples)
    IN /\ engine.stats.examples_seen + n <= MaxSeen
       /\ \E outs \in [1..n -> Outputs], losses \in [1..n -> Losses] :
            LET r == training_engine_train_with_curriculum(engine, curriculum, outs, losses)
            IN /\ engine' = r.e
               /\ curriculum' = r.c
               /\ call' = [op |-> "train_with_curriculum",
                           arg |-> [outs |-> outs], ret |-> <<>>,
                           pre |-> curriculum.current_level]
               /\ UNCHANGED <<sr, learner, now, streak_run, extinctions, ui>>

Next ==
    \/ AddExample
    \/ ShouldAdvance
    \/ AdvanceLevel
    \/ TrainWithCurriculum

Spec == Init /\ [][Next]_vars

----------------------------------------------------------------------------
(* Claims about the Difficulty Controller and the curriculum epoch (Spec)  *)

\* C1: whatever the sequence of advance(), should_advance(), add_example() calls
\* and curriculum epochs, no step lowers current_level and current_level never
\* exceeds num_levels - 1.
C1_LevelMonotoneBounded ==
    [][ /\ curriculum'.current_level >= curriculum.current_level
        /\ curriculum'.current_level <= curriculum'.num_levels - 1 ]_vars

\* advance() was called at the terminal level of a curriculum of several levels
C1_Witness ==
    /\ call.op = "advance"
    /\ curriculum.num_levels >= 2
    /\ call.pre = curriculum.num_levels - 1
    /\ curriculum.current_level = curriculum.num_levels - 1

\* C2: should_advance(accuracy) returns true exactly when accuracy >= 0.85 (the
\* mastery threshold) and the level is not the last one, and leaves current_level
\* as it was.
C2_ShouldAdvanceGate ==
    call.op = "should_advance" =>
        /\ call.ret[1] = ( /\ ~call.arg.accuracy.nan
                           /\ call.arg.accuracy.v >= MASTERY_DEFAULT
                           /\ call.pre # curriculum.num_levels - 1 )
        /\ curriculum.current_level = call.pre

\* should_advance returned true for an accuracy of exactly the threshold
C2_Witness ==
    /\ call.op = "should_advance"
    /\ call.arg.accuracy = Dbl(MASTERY_DEFAULT)
    /\ call.ret = <<TRUE>>

\* an output component within 0.1 of its target, as a statement about numbers
WithinTolerance(o, t) == ~o.nan /\ Abs(o.v - t) <= CORRECT_TOLERANCE

\* C9: a curriculum epoch processes every item of the current level once
\* (examples_seen grows by the store size), sets stats.accuracy to (items whose
\* every output component is within 0.1 of its target) / (items), and then
\* advances by exactly one level iff that accuracy passes the mastery gate at a
\* non-terminal level.
C9_EpochAccuracyAndAdvance ==
    [][ (call'.op = "train_with_curriculum" /\ engine.has_curriculum) =>
        LET examples == curriculum.levels[curriculum.current_level + 1].examples
            n == Len(examples)
            good == { i \in 1..n : \A j \in 1..Len(examples[i].target) :
                        WithinTolerance(call'.arg.outs[i][j], examples[i].target[j]) }
            accuracy == DDivK(Cardinality(good), n)
            gate == /\ DGeq(accuracy, Dbl(MASTERY_DEFAULT))
                    /\ curriculum.current_level # curriculum.num_levels - 1
        IN /\ engine'.stats.examples_seen = engine.stats.examples_seen + n
           /\ engine'.stats.accuracy = accuracy
           /\ curriculum'.current_level =
                 curriculum.current_level + (IF gate THEN 1 ELSE 0) ]_vars

----------------------------------------------------------------------------
(* Specification SpecSR: the Memory Scheduler under a non-decreasing clock *)

MaxEntries == 2         \* entries added to the scheduler
MaxUpdates == 5         \* reviews recorded, over all entries
MaxHours == 2           \* the clock runs for MaxHours hours

Capacities == { 1 }             \* creation capacities

LtmThresholds == { 2, 5 }       \* creation thresholds

TickSteps == { 100 }            \* the clock advances by 1 hour

IdleCurriculum == curriculum_create(1)

RECURSIVE SumAttempts(_, _)
SumAttempts(examples, n) ==
    IF n = 0 THEN 0 ELSE SumAttempts(examples, n - 1) + examples[n].attempts

InitSR ==
    /\ \E capacity \in Capacities, ltm \in LtmThresholds :
          sr = spaced_repetition_create(capacity, ltm)
    /\ curriculum = IdleCurriculum
    /\ engine = training_engine_create(IdleConfig)
    /\ learner = IdleLearner
    /\ now = 0
    /\ streak_run = <<>>
    /\ extinctions = 0
    /\ ui = viewDidLoad
    /\ call = NoCall

Tick ==
    \E d \in TickSteps :
        /\ now + d <= MaxHours * 100
        /\ now' = now + d
        /\ call' = [op |-> "tick", arg |-> [d |-> d], ret |-> <<>>, pre |-> 0]
        /\ UNCHANGED <<curriculum, engine, sr, learner, streak_run, extinctions, ui>>

SRAddExample ==
    \E example \in Examples :
        /\ Len(sr.examples) < MaxEntries
        /\ sr' = spaced_repetition_add_example(sr, example, now)
        /\ streak_run' = Append(streak_run, 0)
        /\ call' = [op |-> "sr_add", arg |-> [example |-> example], ret |-> <<>>, pre |-> 0]
        /\ UNCHANGED <<curriculum, engine, learner, now, extinctions, ui>>

SRGetNextReview ==
    /\ call' = [op |-> "next_due", arg |-> <<>>,
                ret |-> <<spaced_repetition_get_next_review(sr, now)>>, pre |-> 0]
    /\ UNCHANGED <<curriculum, engine, sr, learner, now, streak_run, extinctions, ui>>

SRUpdateExample ==
    \E index \in 0..MaxEntries, is_correct \in BOOLEAN :
        /\ SumAttempts(sr.examples, Len(sr.examples)) < MaxUpdates
        /\ sr' = spaced_repetition_update_example(sr, index, is_correct, now)
        /\ streak_run' = IF index < Len(sr.examples)
                         THEN [streak_run EXCEPT ![index + 1] =
                                  IF is_correct THEN @ + 1 ELSE 0]
                         ELSE streak_run
        /\ call' = [op |-> "update",
                    arg |-> [index |-> index, is_correct |-> is_correct],
                    ret |-> <<>>,
                    pre |-> IF index < Len(sr.examples)
                            THEN sr.examples[index + 1].correct_streak ELSE 0]
        /\ UNCHANGED <<curriculum, engine, learner, now, extinctions, ui>>

NextSR ==
    \/ Tick
    \/ SRAddExample
    \/ SRGetNextReview
    \/ SRUpdateExample

SpecSR == InitSR /\ [][NextSR]_vars

----------------------------------------------------------------------------
(* Claims about the Memory Scheduler (SpecSR)                              *)

\* C3: for every entry, correct_streak equals the number of consecutive correct
\* updates since the entry was added or last reviewed incorrectly, and
\* is_in_long_term_memory is true iff that number has reached ltm_threshold.
C3_StreakAndLtm ==
    \A i \in 1..Len(sr.examples) :
        /\ sr.examples[i].correct_streak = streak_run[i]
        /\ spaced_repetition_is_in_ltm(sr, i - 1) = (streak_run[i] >= sr.ltm_threshold)

\* five consecutive correct updates of a fresh entry under ltm_threshold = 5
C3_Witness ==
    /\ sr.ltm_threshold = 5
    /\ \E i \in 1..Len(sr.examples) :
          /\ sr.examples[i].attempts = 5
          /\ streak_run[i] = 5
          /\ spaced_repetition_is_in_ltm(sr, i - 1)

\* C5: a correct update at time now sets next_review to
\* now + max(initial_interval, elapsed) * (2.5 + max(0, s - 1) * 0.5), elapsed being
\* the time from the entry's previous last_reviewed to now and s the new streak.
C5_CorrectUpdateUsesElapsed ==
    [][ ( /\ call'.op = "update"
          /\ call'.arg.is_correct
          /\ call'.arg.index < Len(sr.examples) ) =>
        LET i == call'.arg.index + 1
            elapsed == TimeToHours(now - sr.examples[i].last_reviewed)
            s == sr'.examples[i].correct_streak
            effective == Max(sr.initial_interval, elapsed)
            multiplier == BASE_MULTIPLIER + Max(0, s - 1) * STREAK_MULTIPLIER
        IN sr'.examples[i].next_review =
              now + HoursToTime((effective * multiplier) \div 10) ]_vars

\* C6: an incorrect update at time now sets correct_streak to 0 and next_review to
\* now + initial_interval, so next_review = last_reviewed + initial_interval and
\* the entry is not in long-term memory.
C6_IncorrectUpdateResets ==
    ( /\ call.op = "update"
      /\ ~call.arg.is_correct
      /\ call.arg.index < Len(sr.examples) ) =>
        LET ex == sr.examples[call.arg.index + 1]
        IN /\ ex.correct_streak = 0
           /\ ex.next_review = now + HoursToTime(sr.initial_interval)
           /\ ex.next_review = ex.last_reviewed + HoursToTime(sr.initial_interval)
           /\ ~spaced_repetition_is_in_ltm(sr, call.arg.index)

\* an incorrect update right after four correct ones, at a later time than the add
C6_Witness ==
    /\ call.op = "update"
    /\ ~call.arg.is_correct
    /\ call.arg.index < Len(sr.examples)
    /\ call.pre = 4
    /\ sr.examples[call.arg.index + 1].attempts = 5
    /\ now > 0

\* C7: every entry has next_review >= last_reviewed.
C7_NextReviewNotBeforeLast ==
    \A i \in 1..Len(sr.examples) :
        sr.examples[i].next_review >= sr.examples[i].last_reviewed

\* an entry reviewed incorrectly after its scheduled review time had passed
C7_Witness ==
    /\ call.op = "update"
    /\ ~call.arg.is_correct
    /\ call.arg.index < Len(sr.examples)
    /\ sr.examples[call.arg.index + 1].attempts >= 2
    /\ sr.examples[call.arg.index + 1].last_reviewed >= 200

\* C8: next_due() at time now returns a due entry of smallest next_review, the
\* first inserted among equals, returns none exactly when no entry is due, and
\* modifies no entry.
C8_NextDue ==
    [][ call'.op = "next_due" =>
        LET due == { i \in 1..Len(sr.examples) : sr.examples[i].next_review <= now }
            r == call'.ret[1] + 1
        IN /\ sr' = sr
           /\ (due = {}) <=> (call'.ret = <<-1>>)
           /\ due # {} =>
                /\ r \in due
                /\ \A j \in due : sr.examples[r].next_review <= sr.examples[j].next_review
                /\ \A j \in due : sr.examples[j].next_review = sr.examples[r].next_review
                                     => r <= j ]_vars

\* next_due() chose between two due entries of equal next_review
C8_Witness ==
    /\ call.op = "next_due"
    /\ call.ret = <<0>>
    /\ Len(sr.examples) = 2
    /\ sr.examples[1].next_review = sr.examples[2].next_review
    /\ sr.examples[1].next_review <= now

----------------------------------------------------------------------------
(* Specification SpecPav: the Associative Learner                          *)

MaxAssociations == 2    \* associations in the table
MaxPairings == 2        \* pairings, over all associations
MaxExtinctions == 1     \* extinction calls

LearningRates == { 100 }            \* 0.1
WideLearningRates == { 2500, -1000 }    \* 2.5, -1.0

CSs ==
    { [stimulus_vector |-> <<0>>, intensity |-> 1000],
      [stimulus_vector |-> <<1>>, intensity |-> 1000],
      [stimulus_vector |-> <<2>>, intensity |-> 1000] }

USs ==
    { unconditioned_stimulus_create(<<100>>, 1000, 1000),
      unconditioned_stimulus_create(<<100>>, -500, 1000),
      unconditioned_stimulus_create(<<100>>, 0, 1000) }

\* the stimuli association_strength is asked about
LookupCSs == { [stimulus_vector |-> <<1>>, intensity |-> 1000] }

LookupUSs == { unconditioned_stimulus_create(<<100>>, 1000, 1000) }

RewardValues == { 500 }

RECURSIVE SumPairings(_, _)
SumPairings(associations, n) ==
    IF n = 0 THEN 0 ELSE SumPairings(associations, n - 1) + associations[n].pairings

\* the lookup of (cs, us) stays within the bound on the table
RoomFor(cs, us) ==
    \/ Len(learner.associations) < MaxAssociations
    \/ \E i \in 1..Len(learner.associations) :
          AssociationMatches(learner.associations[i], cs, us)

InitPav ==
    /\ \E learning_rate \in LearningRates :
          learner = pavlovian_learner_create(PAVLOVIAN_HYBRID, learning_rate)
    /\ curriculum = IdleCurriculum
    /\ engine = training_engine_create(IdleConfig)
    /\ sr = IdleSR
    /\ now = 0
    /\ streak_run = <<>>
    /\ extinctions = 0
    /\ ui = viewDidLoad
    /\ call = NoCall

PairStimuli ==
    \E cs \in CSs, us \in USs :
        /\ RoomFor(cs, us)
        /\ SumPairings(learner.associations, Len(learner.associations)) < MaxPairings
        /\ learner' = pavlovian_pair_stimuli(learner, cs, us, now)
        /\ call' = [op |-> "pair", arg |-> [cs |-> cs, us |-> us], ret |-> <<>>, pre |-> 0]
        /\ UNCHANGED <<curriculum, engine, sr, now, streak_run, extinctions, ui>>

Reward ==
    \E cs \in CSs, value \in RewardValues :
        /\ RoomFor(cs, unconditioned_stimulus_create(cs.stimulus_vector, value, 1000))
        /\ SumPairings(learner.associations, Len(learner.associations)) < MaxPairings
        /\ learner' = pavlovian_reward(learner, cs, value, now)
        /\ call' = [op |-> "reward", arg |-> [cs |-> cs, value |-> value],
                    ret |-> <<>>, pre |-> 0]
        /\ UNCHANGED <<curriculum, engine, sr, now, streak_run, extinctions, ui>>

Punish ==
    \E cs \in CSs, value \in RewardValues :
        /\ RoomFor(cs, unconditioned_stimulus_create(cs.stimulus_vector, -value, 1000))
        /\ SumPairings(learner.associations, Len(learner.associations)) < MaxPairings
        /\ learner' = pavlovian_punish(learner, cs, value, now)
        /\ call' = [op |-> "punish", arg |-> [cs |-> cs, value |-> value],
                    ret |-> <<>>, pre |-> 0]
        /\ UNCHANGED <<curriculum, engine, sr, now, streak_run, extinctions, ui>>

GetAssociationStrength ==
    \E cs \in LookupCSs, us \in LookupUSs :
        /\ RoomFor(cs, us)
        /\ LET r == pavlovian_get_association_strength(learner, cs, us, now)
           IN /\ learner' = r.l
              \* pre: 1 when the call before was the same lookup
              /\ call' = [op |-> "association_strength", arg |-> [cs |-> cs, us |-> us],
                          ret |-> <<r.ret>>,
                          pre |-> IF /\ call.op = "association_strength"
                                     /\ call.arg = [cs |-> cs, us |-> us]
                                  THEN 1 ELSE 0]
        /\ UNCHANGED <<curriculum, engine, sr, now, streak_run, extinctions, ui>>

Extinction ==
    \E cs \in CSs :
        /\ extinctions < MaxExtinctions
        /\ learner' = pavlovian_extinction(learner, cs)
        /\ extinctions' = extinctions + 1
        /\ call' = [op |-> "extinguish", arg |-> [cs |-> cs], ret |-> <<>>, pre |-> 0]
        /\ UNCHANGED <<curriculum, engine, sr, now, streak_run, ui>>

GetExpectedReward ==
    \E cs \in CSs :
        /\ call' = [op |-> "expected_reward", arg |-> [cs |-> cs],
                    ret |-> <<pavlovian_get_expected_reward(learner, cs)>>, pre |-> 0]
        /\ UNCHANGED <<curriculum, engine, sr, learner, now, streak_run, extinctions, ui>>

\* the learner under learning rates outside [0, 1]
InitPavWide ==
    /\ \E learning_rate \in WideLearningRates :
          learner = pavlovian_learner_create(PAVLOVIAN_HYBRID, learning_rate)
    /\ curriculum = IdleCurriculum
    /\ engine = training_engine_create(IdleConfig)
    /\ sr = IdleSR
    /\ now = 0
    /\ streak_run = <<>>
    /\ extinctions = 0
    /\ ui = viewDidLoad
    /\ call = NoCall

NextPavWide ==
    \/ PairStimuli
    \/ Reward
    \/ Punish
    \/ Extinction

SpecPavWide == InitPavWide /\ [][NextPavWide]_vars

NextPav ==
    \/ PairStimuli
    \/ Reward
    \/ Punish
    \/ GetAssociationStrength
    \/ Extinction
    \/ GetExpectedReward

SpecPav == InitPav /\ [][NextPav]_vars

----------------------------------------------------------------------------
(* Claims about the Associative Learner (SpecPav)                          *)

\* C4: after any sequence of pair (direct or through reward / punish) and
\* extinguish calls, with any learning rate and reward, every association
\* strength lies in [-1, 1].
C4_StrengthClamped ==
    \A i \in 1..Len(learner.associations) :
        /\ learner.associations[i].association_strength >= -1000
        /\ learner.associations[i].association_strength <= 1000

\* a pairing under a learning rate outside [0, 1], after an extinction, left a
\* strength at one end of the range
C4_Witness ==
    /\ call.op \in {"pair", "reward", "punish"}
    /\ learner.learning_rate \notin 0..1000
    /\ extinctions >= 1
    /\ \E i \in 1..Len(learner.associations) :
          /\ learner.associations[i].pairings >= 2
          /\ Abs(learner.associations[i].association_strength) = 1000

C11_LookupIdempotent ==
    [][ call'.op = "association_strength" =>
        LET old == learner.associations
            new == learner'.associations
            cs == call'.arg.cs
            us == call'.arg.us
            matched == \E i \in 1..Len(old) : AssociationMatches(old[i], cs, us)
        IN /\ Len(new) = Len(old) + (IF matched THEN 0 ELSE 1)
           /\ \A i \in 1..Len(old) : new[i] = old[i]
           /\ ~matched => new[Len(new)].association_strength = 0 /\ call'.ret = <<0>>
           /\ (call.op = "association_strength" /\ call.arg = call'.arg) =>
                 call'.ret = call.ret /\ learner' = learner
           /\ \A cs2 \in CSs, us2 \in USs :
                 LET between == pavlovian_get_association_strength(learner', cs2, us2, now)
                     again == pavlovian_get_association_strength(between.l, cs, us, now)
                 IN again.ret = call'.ret[1] /\ again.l = between.l ]_vars

\* the same lookup twice in a row, the first of which created the association
C11_Witness ==
    /\ call.op = "association_strength"
    /\ call.pre = 1
    /\ call.ret = <<0>>
    /\ \E i \in 1..Len(learner.associations) :
          /\ AssociationMatches(learner.associations[i], call.arg.cs, call.arg.us)
          /\ learner.associations[i].pairings = 0
          /\ learner.associations[i].cs = call.arg.cs

----------------------------------------------------------------------------
(* Further claims about the Difficulty Controller and its epoch (Spec)     *)

\* an output with no non-finite value among the components compared
FiniteOutput(output, target) == \A j \in 1..Len(target) : ~output[j].nan

\* C12: in a curriculum epoch an item whose output holds a non-finite value in a
\* compared component is counted as incorrect: the correct count behind
\* stats.accuracy is at most the number of items with finite outputs.
C12_NonFiniteCountedIncorrect ==
    [][ (call'.op = "train_with_curriculum" /\ engine.has_curriculum) =>
        LET examples == curriculum.levels[curriculum.current_level + 1].examples
            n == Len(examples)
            finite == { i \in 1..n : FiniteOutput(call'.arg.outs[i], examples[i].target) }
        IN n > 0 =>
             /\ ~engine'.stats.accuracy.nan
             /\ engine'.stats.accuracy.v <= DDivK(Cardinality(finite), n).v ]_vars

\* C13: a curriculum epoch over an empty current-level store asks the predictor
\* for nothing, leaves examples_seen and every store as they were and does not
\* change the controller's level.
C13_EmptyEpochNoOp ==
    [][ ( /\ call'.op = "train_with_curriculum"
          /\ engine.has_curriculum
          /\ curriculum.levels[curriculum.current_level + 1].examples = <<>> ) =>
        /\ call'.arg.outs = <<>>
        /\ engine'.stats.examples_seen = engine.stats.examples_seen
        /\ curriculum'.current_level = curriculum.current_level
        /\ \A k \in 1..curriculum.num_levels :
              curriculum'.levels[k].examples = curriculum.levels[k].examples ]_vars

\* an epoch ran over the empty store of a non-terminal level
C13_Witness ==
    /\ call.op = "train_with_curriculum"
    /\ engine.has_curriculum
    /\ curriculum.num_levels >= 2
    /\ call.pre = 0
    /\ curriculum.current_level = 0
    /\ curriculum.levels[1].examples = <<>>
    /\ engine.stats.accuracy.nan

\* k calls of advance() in a row
RECURSIVE AdvanceTimes(_, _)
AdvanceTimes(c, k) ==
    IF k = 0 THEN c ELSE curriculum_advance_level(AdvanceTimes(c, k - 1))

\* C14: a controller created with N levels starts at level 0; advance() raises the
\* level by exactly 1 below N-1 and is a no-op at N-1, so k calls on the fresh
\* controller give level min(k, N-1), and k calls from any level reached give
\* min(level + k, N-1).
C14_AdvanceSteps ==
    /\ curriculum.current_level = 0
    /\ [][ call'.op = "advance" =>
            curriculum' =
               [curriculum EXCEPT !.current_level =
                   IF @ < curriculum.num_levels - 1 THEN @ + 1 ELSE @] ]_vars
    /\ [] \A k \in 0..(MaxLevels + 1) :
            /\ AdvanceTimes(curriculum_create(curriculum.num_levels), k).current_level
                  = Min(k, curriculum.num_levels - 1)
            /\ AdvanceTimes(curriculum, k).current_level
                  = Min(curriculum.current_level + k, curriculum.num_levels - 1)

\* advance() took a controller of at least three levels to its last level
C14_Witness ==
    /\ call.op = "advance"
    /\ curriculum.num_levels >= 3
    /\ call.pre = curriculum.num_levels - 2
    /\ curriculum.current_level = curriculum.num_levels - 1

\* C15: add_example with a level outside [0, num_levels - 1] changes nothing: no
\* store, example count or capacity, and not the current level.
C15_AddOutOfRangeRejected ==
    [][ ( /\ call'.op = "add_example"
          /\ call'.arg.level \notin 0..(curriculum.num_levels - 1) ) =>
        curriculum' = curriculum ]_vars

\* an out-of-range add_example on a controller that already stores an example
C15_Witness ==
    /\ call.op = "add_example"
    /\ call.arg.level >= curriculum.num_levels
    /\ NumStored(curriculum) >= 1

----------------------------------------------------------------------------
(* Specification SpecStore: the level stores under examples that differ    *)

\* the caller's items: two examples of different content
StoreExamples ==
    { [input |-> <<0>>, target |-> <<0, 0>>, difficulty |-> 30],
      [input |-> <<50>>, target |-> <<100, 0>>, difficulty |-> 70] }

InitStore ==
    /\ \E n \in 1..MaxLevels : curriculum = curriculum_create(n)
    /\ engine = training_engine_create(IdleConfig)
    /\ sr = IdleSR
    /\ learner = IdleLearner
    /\ now = 0
    /\ streak_run = <<>>
    /\ extinctions = 0
    /\ ui = viewDidLoad
    /\ call = NoCall

AddStoreExample ==
    \E example \in StoreExamples, level \in 0..MaxLevels :
        /\ NumStored(curriculum) < MaxStored
        /\ curriculum' = curriculum_add_example(curriculum, example, level, now)
        /\ call' = [op |-> "add_example", arg |-> [example |-> example, level |-> level],
                    ret |-> <<>>, pre |-> curriculum.current_level]
        /\ UNCHANGED <<engine, sr, learner, now, streak_run, extinctions, ui>>

NextStore ==
    \/ AddStoreExample
    \/ AdvanceLevel

SpecStore == InitStore /\ [][NextStore]_vars

\* C16: add_example(item, level) with level < num_levels appends one copy of item
\* at the end of that level's store: the count grows by 1, the items stored before
\* keep content and position (also when the capacity doubles), and every other
\* level and the current level are unchanged.
C16_AddAppendsCopy ==
    [][ ( /\ call'.op = "add_example"
          /\ call'.arg.level < curriculum.num_levels ) =>
        LET k == call'.arg.level + 1
            item == call'.arg.example
            old == curriculum.levels[k]
            new == curriculum'.levels[k]
            last == new.examples[Len(new.examples)]
        IN /\ Len(new.examples) = Len(old.examples) + 1
           /\ \A i \in 1..Len(old.examples) : new.examples[i] = old.examples[i]
           /\ last.input = item.input
           /\ last.target = item.target
           /\ last.difficulty = item.difficulty
           /\ new.capacity >= Len(new.examples)
           /\ new = [old EXCEPT !.examples = new.examples, !.capacity = new.capacity]
           /\ \A j \in 1..curriculum.num_levels :
                 j # k => curriculum'.levels[j] = curriculum.levels[j]
           /\ curriculum'.current_level = curriculum.current_level
           /\ curriculum'.num_levels = curriculum.num_levels ]_vars

\* an item was appended behind a different one while the capacity doubled, on a
\* controller that has left level 0
C16_Witness ==
    /\ call.op = "add_example"
    /\ call.arg.level < curriculum.num_levels
    /\ curriculum.current_level >= 1
    /\ LET dl == curriculum.levels[call.arg.level + 1]
       IN /\ Len(dl.examples) = 2
          /\ dl.capacity = 2 * EXAMPLES_PER_LEVEL
          /\ dl.examples[1].input # dl.examples[2].input
          /\ dl.examples[2].input = call.arg.example.input

----------------------------------------------------------------------------
(* Further claims about the Memory Scheduler (SpecSR)                      *)

\* C17: add(item) at time now appends an entry holding the item with
\* last_reviewed = now, next_review = now + initial_interval, correct_streak = 0
\* and attempts = 0 and leaves the existing entries unchanged; next_due() does not
\* return an entry never reviewed before initial_interval has passed since its add.
C17_AddSchedulesAfterInterval ==
    [][ /\ call'.op = "sr_add" =>
            LET old == sr.examples
                new == sr'.examples
                item == call'.arg.example
                e == new[Len(new)]
            IN /\ Len(new) = Len(old) + 1
               /\ \A i \in 1..Len(old) : new[i] = old[i]
               /\ e.input = item.input /\ e.target = item.target
               /\ e.difficulty = item.difficulty
               /\ e.last_reviewed = now
               /\ e.next_review = now + HoursToTime(INITIAL_INTERVAL)
               /\ e.correct_streak = 0
               /\ e.attempts = 0
               /\ sr'.ltm_threshold = sr.ltm_threshold
               /\ sr'.initial_interval = sr.initial_interval
        /\ (call'.op = "next_due" /\ call'.ret # <<-1>>) =>
            LET e == sr.examples[call'.ret[1] + 1]
            IN e.attempts = 0 =>
                 now >= e.last_reviewed + HoursToTime(INITIAL_INTERVAL) ]_vars

\* an entry added after the clock had moved, behind an entry already reviewed
C17_Witness ==
    /\ call.op = "sr_add"
    /\ now > 0
    /\ Len(sr.examples) = 2
    /\ sr.examples[1].attempts >= 1
    /\ sr.examples[2].last_reviewed = now
    /\ sr.examples[2].next_review = now + HoursToTime(INITIAL_INTERVAL)

----------------------------------------------------------------------------
(* Further claims about the Associative Learner (SpecPav)                  *)

\* C18: extinguish(cs) multiplies by (1 - decay_rate) the strength of every
\* association whose CS matches cs within the tolerance and changes nothing else:
\* no other strength, no pairing counter, and the table keeps its entries.
C18_ExtinctionDecaysMatching ==
    [][ call'.op = "extinguish" =>
        LET old == learner.associations
            new == learner'.associations
            cs == call'.arg.cs
        IN /\ Len(new) = Len(old)
           /\ \A i \in 1..Len(old) :
                 new[i] = [old[i] EXCEPT !.association_strength =
                              IF VectorsMatch(old[i].cs.stimulus_vector, cs.stimulus_vector)
                              THEN FMul(@, 1000 - DECAY_RATE) ELSE @]
           /\ learner' = [learner EXCEPT !.associations = new] ]_vars

\* an extinction decayed an association stored under a neighbouring CS vector and
\* left one of another CS at its strength
C18_Witness ==
    /\ call.op = "extinguish"
    /\ \E i, j \in 1..Len(learner.associations) :
          LET a == learner.associations[i]
              b == learner.associations[j]
          IN /\ VectorsMatch(a.cs.stimulus_vector, call.arg.cs.stimulus_vector)
             /\ a.cs.stimulus_vector # call.arg.cs.stimulus_vector
             /\ a.association_strength = 99
             /\ ~VectorsMatch(b.cs.stimulus_vector, call.arg.cs.stimulus_vector)
             /\ b.association_strength = 100

\* C19: expected_reward(cs) returns strength * stored US reward of an association
\* of largest |strength| among those whose CS matches cs within the tolerance, 0
\* when none matches or every matching strength is 0, and leaves the learner as
\* it was.
C19_ExpectedReward ==
    [][ call'.op = "expected_reward" =>
        LET assocs == learner.associations
            cs == call'.arg.cs
            matching == { i \in 1..Len(assocs) :
                            VectorsMatch(assocs[i].cs.stimulus_vector, cs.stimulus_vector) }
            strongest == { i \in matching :
                            \A j \in matching : Abs(assocs[i].association_strength)
                                                   >= Abs(assocs[j].association_strength) }
        IN /\ learner' = learner
           /\ IF \A i \in matching : assocs[i].association_strength = 0
              THEN call'.ret = <<0>>
              ELSE \E i \in strongest :
                      call'.ret = <<FMul(assocs[i].us.reward_value,
                                         assocs[i].association_strength)>> ]_vars

\* the value came from the second of two associations of the CS, the stronger one
C19_Witness ==
    /\ call.op = "expected_reward"
    /\ call.ret = <<50>>
    /\ Len(learner.associations) = 2
    /\ \A i \in 1..2 :
          VectorsMatch(learner.associations[i].cs.stimulus_vector,
                       call.arg.cs.stimulus_vector)
    /\ learner.associations[1].association_strength = 99
    /\ learner.associations[2].association_strength = 100
    /\ learner.associations[2].us.reward_value = 500

\* two stimulus vectors of the same size with every component within 0.01
SameStimulus(a, b) ==
    /\ Len(a) = Len(b)
    /\ \A j \in 1..Len(a) : Abs(a[j] - b[j]) <= 1

\* C20: no two associations of the table match each other in both the CS and the
\* US vector; pair, reward, punish and association_strength create an association
\* only when none matches, one at most, and no call makes the table shorter.
C20_AssociationsUnique ==
    /\ [] \A i, j \in 1..Len(learner.associations) :
            i # j =>
              ~ ( /\ SameStimulus(learner.associations[i].cs.stimulus_vector,
                                  learner.associations[j].cs.stimulus_vector)
                  /\ SameStimulus(learner.associations[i].us.stimulus_vector,
                                  learner.associations[j].us.stimulus_vector) )
    /\ [][ /\ Len(learner'.associations) >= Len(learner.associations)
            /\ call'.op \in {"pair", "reward", "punish", "association_strength"} =>
                LET old == learner.associations
                    cs == call'.arg.cs.stimulus_vector
                    us == IF call'.op \in {"reward", "punish"}
                          THEN cs ELSE call'.arg.us.stimulus_vector
                    matched == \E i \in 1..Len(old) :
                                  /\ SameStimulus(old[i].cs.stimulus_vector, cs)
                                  /\ SameStimulus(old[i].us.stimulus_vector, us)
                IN Len(learner'.associations) = Len(old) + (IF matched THEN 0 ELSE 1) ]_vars

\* a lookup matched two stored associations that do not match each other and
\* created nothing
C20_Witness ==
    /\ call.op = "association_strength"
    /\ Len(learner.associations) = 2
    /\ \A i \in 1..2 :
          /\ AssociationMatches(learner.associations[i], call.arg.cs, call.arg.us)
          /\ learner.associations[i].pairings = 1
    /\ ~VectorsMatch(learner.associations[1].cs.stimulus_vector,
                     learner.associations[2].cs.stimulus_vector)

\* C21: reward(cs, v) changes the learner exactly as pair(cs, us) does for a US
\* synthesized from the CS vector with reward +v, punish(cs, v) as pair does for
\* one with reward -v; nothing of the synthesized US stays in the learner but what
\* pair puts into the association.
C21_RewardPunishArePair ==
    [][ /\ call'.op = "reward" =>
            learner' = pavlovian_pair_stimuli(learner, call'.arg.cs,
                           [stimulus_vector |-> call'.arg.cs.stimulus_vector,
                            reward_value |-> call'.arg.value,
                            intensity |-> 1000], now)
        /\ call'.op = "punish" =>
            learner' = pavlovian_pair_stimuli(learner, call'.arg.cs,
                           [stimulus_vector |-> call'.arg.cs.stimulus_vector,
                            reward_value |-> -call'.arg.value,
                            intensity |-> 1000], now) ]_vars

\* punish found the association a reward had created and pulled its strength
\* below 0
C21_Witness ==
    /\ call.op = "punish"
    /\ Len(learner.associations) = 1
    /\ learner.associations[1].pairings = 2
    /\ learner.associations[1].us.reward_value = 500
    /\ learner.associations[1].association_strength = -10

----------------------------------------------------------------------------
(* Specification SpecSRAny: the Memory Scheduler created with any capacity *)

AnyCapacities == { 0, 1, 2 }

InitSRAny ==
    /\ \E capacity \in AnyCapacities, ltm \in LtmThresholds :
          sr = spaced_repetition_create(capacity, ltm)
    /\ curriculum = IdleCurriculum
    /\ engine = training_engine_create(IdleConfig)
    /\ learner = IdleLearner
    /\ now = 0
    /\ streak_run = <<>>
    /\ extinctions = 0
    /\ ui = viewDidLoad
    /\ call = NoCall

SpecSRAny == InitSRAny /\ [][NextSR]_vars

\* C22: whatever the creation capacity, num_examples <= capacity holds after any
\* sequence of add calls: every stored entry lies inside the backing store.
C22_StoreWithinCapacity ==
    Len(sr.examples) <= sr.capacity

----------------------------------------------------------------------------
(* Claims about the Training Orchestrator's statistics (Spec)              *)

\* C23: the statistics stay in their ranges: accuracy is a number in [0, 1],
\* current_loss a number >= 0 and current_level a level of the controller.
C23_StatsInRange ==
    /\ ~engine.stats.accuracy.nan
    /\ engine.stats.accuracy.v >= 0
    /\ engine.stats.accuracy.v <= 1000
    /\ ~engine.stats.current_loss.nan
    /\ engine.stats.current_loss.v >= 0
    /\ engine.stats.current_level \in 0..(curriculum.num_levels - 1)

----------------------------------------------------------------------------
(* Specification SpecEngine: an engine as training_engine_create builds    *)
(* it, its epoch counter, its spaced-repetition step and its pavlovian step *)

MaxEpochs == 2          \* train_epoch calls

ENGINE_SR_CAPACITY == 10000     \* spaced_repetition_create(10000, 5.0)
ENGINE_LTM_THRESHOLD == 5

\* the components training_engine_create builds for the enabled modes; a
\* disabled mode leaves the component unused
InitEngine ==
    /\ \E uc \in BOOLEAN, up \in BOOLEAN, us \in BOOLEAN, lr \in LearningRates :
          /\ engine = training_engine_create(
                          [IdleConfig EXCEPT !.learning_rate = lr,
                                             !.use_curriculum = uc,
                                             !.use_pavlovian = up,
                                             !.use_spaced_repetition = us])
          /\ curriculum = IF uc THEN curriculum_create(ENGINE_NUM_LEVELS)
                          ELSE IdleCurriculum
          /\ learner = IF up THEN pavlovian_learner_create(PAVLOVIAN_HYBRID, lr)
                       ELSE IdleLearner
          /\ sr = IF us THEN spaced_repetition_create(ENGINE_SR_CAPACITY,
                                                      ENGINE_LTM_THRESHOLD)
                  ELSE IdleSR
    /\ now = 0
    /\ streak_run = <<>>
    /\ extinctions = 0
    /\ ui = viewDidLoad
    /\ call = NoCall

TrainEpoch ==
    /\ engine.stats.epoch < MaxEpochs
    /\ engine' = training_engine_train_epoch(engine)
    /\ call' = [op |-> "train_epoch", arg |-> <<>>, ret |-> <<>>,
                pre |-> engine.stats.epoch]
    /\ UNCHANGED <<curriculum, sr, learner, now, streak_run, extinctions, ui>>

\* the caller stores an item in the engine's scheduler
EngineSRAddExample ==
    \E example \in Examples :
        /\ engine.has_spaced_repetition
        /\ Len(sr.examples) < MaxEntries
        /\ sr' = spaced_repetition_add_example(sr, example, now)
        /\ call' = [op |-> "sr_add", arg |-> [example |-> example], ret |-> <<>>, pre |-> 0]
        /\ UNCHANGED <<curriculum, engine, learner, now, streak_run, extinctions, ui>>

\* pre: the 0-based index next_due gives before the step, -1 for none
TrainWithSpacedRepetition ==
    \E output \in Outputs :
        /\ SumAttempts(sr.examples, Len(sr.examples)) < MaxUpdates
        /\ LET r == training_engine_train_with_spaced_repetition(engine, sr, output, now)
           IN /\ engine' = r.e
              /\ sr' = r.sr
              /\ call' = [op |-> "train_with_spaced_repetition",
                          arg |-> [output |-> output], ret |-> r.nn,
                          pre |-> IF engine.has_spaced_repetition
                                  THEN spaced_repetition_get_next_review(sr, now)
                                  ELSE -1]
        /\ UNCHANGED <<curriculum, learner, now, streak_run, extinctions, ui>>

TrainWithPavlovian ==
    \E cs \in LookupCSs, us \in LookupUSs :
        /\ SumPairings(learner.associations, Len(learner.associations)) < MaxPairings
        /\ LET r == training_engine_train_with_pavlovian(engine, learner, cs, us, now)
           IN /\ engine' = r.e
              /\ learner' = r.l
              /\ call' = [op |-> "train_with_pavlovian",
                          arg |-> [cs |-> cs, us |-> us], ret |-> r.nn, pre |-> 0]
        /\ UNCHANGED <<curriculum, sr, now, streak_run, extinctions, ui>>

NextEngine ==
    \/ Tick
    \/ TrainEpoch
    \/ EngineSRAddExample
    \/ TrainWithSpacedRepetition
    \/ TrainWithPavlovian

SpecEngine == InitEngine /\ [][NextEngine]_vars

----------------------------------------------------------------------------
(* Claims about the Training Orchestrator's steps (SpecEngine)             *)

\* C24: a spaced-repetition step changes nothing and calls the Predictor not
\* at all when next_due() gives none; otherwise it applies one Scheduler
\* update to the entry next_due() gave, with is_correct = (every output
\* component within 0.1 of the target), runs one forward/backward/optimizer
\* cycle, and leaves that entry not due at the same instant.
C24_SpacedRepetitionStep ==
    [][ call'.op = "train_with_spaced_repetition" =>
        LET due == IF engine.has_spaced_repetition
                   THEN spaced_repetition_get_next_review(sr, now)
                   ELSE -1
        IN IF due = -1
           THEN /\ sr' = sr
                /\ engine' = engine
                /\ call'.ret = <<>>
           ELSE LET target == sr.examples[due + 1].target
                    output == call'.arg.output
                    is_correct == \A j \in 1..Len(target) :
                                      WithinTolerance(output[j], target[j])
                IN /\ sr' = spaced_repetition_update_example(sr, due, is_correct, now)
                   /\ call'.ret = TrainingCycle
                   /\ sr'.examples[due + 1].next_review > now ]_vars

\* C25: each train_epoch call adds exactly 1 to stats.epoch and leaves
\* is_training false, and nothing else changes stats.epoch: on an engine
\* created with any of the three modes enabled, stats.epoch counts the calls.
C25_EpochCountsCalls ==
    /\ engine.stats.epoch = 0
    /\ [][ IF call'.op = "train_epoch"
           THEN /\ engine'.stats.epoch = engine.stats.epoch + 1
                /\ ~engine'.is_training
           ELSE engine'.stats.epoch = engine.stats.epoch ]_vars

C25_Witness ==
    /\ call.op = "train_epoch"
    /\ engine.stats.epoch = 2
    /\ engine.has_curriculum
    /\ engine.has_spaced_repetition
    /\ Len(sr.examples) > 0

----------------------------------------------------------------------------
(* Claims about the curriculum epoch's level and gate (Spec)               *)

\* C28: after every curriculum epoch the level the statistics report equals
\* the Difficulty Controller's current level, also when the epoch advanced.
C28_StatsLevelIsControllerLevel ==
    [][ (call'.op = "train_with_curriculum" /\ engine.has_curriculum) =>
        engine'.stats.current_level = curriculum_get_current_level(curriculum') ]_vars

\* C29: the epoch's advancement check uses the configured mastery threshold:
\* the controller advances after an epoch iff the epoch's accuracy is at least
\* config.mastery_threshold and the level is not the last one.
C29_ConfiguredThresholdGates ==
    [][ (call'.op = "train_with_curriculum" /\ engine.has_curriculum) =>
        LET gate == /\ DGeq(engine'.stats.accuracy, Dbl(engine.config.mastery_threshold))
                    /\ curriculum.current_level # curriculum.num_levels - 1
        IN curriculum'.current_level =
              curriculum.current_level + (IF gate THEN 1 ELSE 0) ]_vars

----------------------------------------------------------------------------
(* Specification SpecPunish: a learner whose stimuli are only ever punished *)

NextPunish ==
    \/ Tick
    \/ Punish
    \/ GetExpectedReward

SpecPunish == InitPav /\ [][NextPunish]_vars

\* C30: the sign of expected_reward(cs) follows the outcomes cs was paired
\* with; here every CS was only ever punished (with v > 0, learning rate in
\* (0, 1]), so expected_reward(cs) is <= 0.
C30_PunishedNotExpectedPositive ==
    call.op = "expected_reward" => call.ret[1] <= 0

----------------------------------------------------------------------------
(* Specification SpecUI: the training loop as TrainingViewController runs  *)
(* it.  startTraining:, pauseTraining: and the bodies on the main queue run *)
(* on the main thread, one at a time; each body dispatched to the global   *)
(* queue runs on a thread of its own, a step at a time.  engine, curriculum, *)
(* sr and learner hold the engine the trainingEngine field points to.      *)

MaxStarts == 2          \* engines created by startTraining:

SLIDER_DEFAULT == 10    \* the learning-rate slider after viewDidLoad, 0.01

\* the configuration startTraining: assembles; the curriculum checkbox is the
\* one the loop depends on, the other two are left as viewDidLoad sets them
UIConfig(use_curriculum) ==
    [ learning_rate |-> SLIDER_DEFAULT,
      use_curriculum |-> use_curriculum,
      use_pavlovian |-> TRUE,
      use_spaced_repetition |-> TRUE,
      mastery_threshold |-> MASTERY_DEFAULT ]

InitUI ==
    /\ curriculum = IdleCurriculum
    /\ engine = training_engine_create(IdleConfig)
    /\ sr = IdleSR
    /\ learner = IdleLearner
    /\ now = 0
    /\ streak_run = <<>>
    /\ extinctions = 0
    /\ ui = viewDidLoad
    /\ call = NoCall

\* a click on the start button.  A block is a body on the global queue: its
\* position pc, the config it captured, the engine (eng) and engine state
\* (seen) it read when it entered its epoch, and whether pauseTraining: was
\* invoked while its loop was running (history).
StartTraining ==
    \E use_curriculum \in BOOLEAN :
        /\ ui.startEnabled
        /\ IF ui.isTraining
           THEN UNCHANGED <<curriculum, engine, sr, learner, ui>>
           ELSE LET config == UIConfig(use_curriculum)
                    created == training_engine_create(config)
                IN /\ ui.trainingEngine < MaxStarts
                   /\ engine' = created
                   /\ curriculum' = IF use_curriculum
                                    THEN curriculum_create(ENGINE_NUM_LEVELS)
                                    ELSE IdleCurriculum
                   /\ learner' = pavlovian_learner_create(PAVLOVIAN_HYBRID,
                                                          config.learning_rate)
                   /\ sr' = spaced_repetition_create(ENGINE_SR_CAPACITY,
                                                     ENGINE_LTM_THRESHOLD)
                   /\ ui' = [ui EXCEPT
                               !.trainingEngine = @ + 1,
                               !.updateTimer = TRUE,
                               !.blocks = Append(@,
                                   [ pc |-> "queued",
                                     use_curriculum |-> use_curriculum,
                                     eng |-> 0,
                                     seen |-> created,
                                     paused |-> FALSE ])]
        /\ call' = [op |-> "startTraining", arg |-> [use_curriculum |-> use_curriculum],
                    ret |-> <<>>, pre |-> ui.trainingEngine]
        /\ UNCHANGED <<now, streak_run, extinctions>>

\* a click on the pause button
PauseTraining ==
    /\ ui.pauseEnabled
    /\ ui' = [ui EXCEPT
                !.isTraining = FALSE,
                !.updateTimer = FALSE,
                !.blocks = [ b \in 1..Len(ui.blocks) |->
                              IF ui.blocks[b].pc \in {"test", "epoch"}
                              THEN [ui.blocks[b] EXCEPT !.paused = TRUE]
                              ELSE ui.blocks[b] ]]
    /\ call' = [op |-> "pauseTraining", arg |-> <<>>, ret |-> <<>>,
                pre |-> ui.trainingEngine]
    /\ UNCHANGED <<curriculum, engine, sr, learner, now, streak_run, extinctions>>

\* a body starts on the global queue: isTraining = YES and the button update
\* dispatched to the main queue
BlockStart ==
    \E b \in 1..Len(ui.blocks) :
        /\ ui.blocks[b].pc = "queued"
        /\ ui' = [ui EXCEPT
                    !.isTraining = TRUE,
                    !.main_queue = Append(@, "training_started"),
                    !.blocks[b].pc = "test"]
        /\ call' = [op |-> "block_start", arg |-> [b |-> b], ret |-> <<>>,
                    pre |-> ui.trainingEngine]
        /\ UNCHANGED <<curriculum, engine, sr, learner, now, streak_run, extinctions>>

\* while (isTraining): the loop enters an epoch on the engine the field
\* points to, or leaves and dispatches the button update
LoopTest ==
    \E b \in 1..Len(ui.blocks) :
        /\ ui.blocks[b].pc = "test"
        /\ IF ui.isTraining
           THEN /\ engine.stats.epoch < MaxEpochs
                /\ ui' = [ui EXCEPT
                            !.blocks[b].pc = "epoch",
                            !.blocks[b].eng = ui.trainingEngine,
                            !.blocks[b].seen = engine]
           ELSE ui' = [ui EXCEPT
                         !.main_queue = Append(@, "training_stopped"),
                         !.blocks[b].pc = "done"]
        /\ call' = [op |-> "loop_test", arg |-> [b |-> b], ret |-> <<>>,
                    pre |-> ui.trainingEngine]
        /\ UNCHANGED <<curriculum, engine, sr, learner, now, streak_run, extinctions>>

\* the epoch of a loop returns.  The engine functions take no lock: when
\* another thread wrote the engine meanwhile, the epoch's writes are based on
\* the state now or on the state it read when it began.  The engines created
\* before the last one are not observed any more.
EpochEnd ==
    \E b \in 1..Len(ui.blocks) :
        /\ ui.blocks[b].pc = "epoch"
        /\ IF ui.blocks[b].eng = ui.trainingEngine
           THEN \E base \in {engine, ui.blocks[b].seen} :
                   IF ui.blocks[b].use_curriculum
                   THEN LET r == training_engine_train_with_curriculum(
                                     base, curriculum, <<>>, <<>>)
                        IN /\ engine' = r.e
                           /\ curriculum' = r.c
                   ELSE /\ engine' = training_engine_train_epoch(base)
                        /\ curriculum' = curriculum
           ELSE UNCHANGED <<curriculum, engine>>
        /\ ui' = [ui EXCEPT !.blocks[b].pc = "test"]
        /\ call' = [op |-> "epoch_end", arg |-> [b |-> b], ret |-> <<>>,
                    pre |-> ui.trainingEngine]
        /\ UNCHANGED <<sr, learner, now, streak_run, extinctions>>

\* the main thread runs the next body of the main queue
MainQueueRun ==
    /\ ui.main_queue # <<>>
    /\ ui' = [ui EXCEPT
                !.main_queue = Tail(@),
                !.startEnabled = (Head(ui.main_queue) = "training_stopped"),
                !.pauseEnabled = (Head(ui.main_queue) = "training_started")]
    /\ call' = [op |-> "main_queue", arg |-> [body |-> Head(ui.main_queue)],
                ret |-> <<>>, pre |-> ui.trainingEngine]
    /\ UNCHANGED <<curriculum, engine, sr, learner, now, streak_run, extinctions>>

NextUI ==
    \/ StartTraining
    \/ PauseTraining
    \/ BlockStart
    \/ LoopTest
    \/ EpochEnd
    \/ MainQueueRun

SpecUI == InitUI /\ [][NextUI]_vars

\* the loops that are running
ActiveLoops == { b \in 1..Len(ui.blocks) : ui.blocks[b].pc \in {"test", "epoch"} }

\* C26: epochs on one engine never overlap and at most one training loop is
\* ever active, also when start is triggered again before or while a loop
\* started earlier runs.
C26_EpochsNeverOverlap ==
    /\ \A a \in ActiveLoops, b \in ActiveLoops :
          ( /\ a # b
            /\ ui.blocks[a].pc = "epoch"
            /\ ui.blocks[b].pc = "epoch" ) => ui.blocks[a].eng # ui.blocks[b].eng
    /\ Cardinality(ActiveLoops) <= 1

\* C27: once pauseTraining: has been invoked on a running loop, that loop
\* starts no new epoch.
C27_PauseStopsLoop ==
    [][ \A b \in 1..Len(ui.blocks) :
           (ui.blocks[b].paused /\ ui.blocks[b].pc = "test") =>
               ui'.blocks[b].pc # "epoch" ]_vars

====
